---------------------------- MODULE Spec2Model ----------------------------
(***************************************************************************)
(* A model of @briklab/lib: the CLI registry, tokenizer and dispatcher of  *)
(* cli-john (src/unnamed/part_004) and the JSTC structural type matcher    *)
(* (src/src/jstc/index.ts), with the Warner they report to                 *)
(* (src/src/warner/node/warner.cc, the TypeScript class at lines 273-426). *)
(*                                                                         *)
(* Strings are sequences of atoms.  An atom is one character ("-", " ",    *)
(* "|", a letter) or a word that is never split or joined (a type tag such *)
(* as "string").  Everything the code does to a string (startsWith,        *)
(* includes, replace, split, JSON.stringify) is computed on the sequence.  *)
(***************************************************************************)
EXTENDS Integers, Sequences, FiniteSets, TLC

VARIABLES
    argv,             \* process.argv, fixed when the process starts
    commands,         \* CLI.#commands: ids of Command objects, in list order
    cmdHeap,          \* every Command object ever constructed, by id
    onCmdFunctions,   \* CLI.#onCmdFunctions: the Registry-level subscribers
    warnings,         \* cliWarner.#warnings.length
    flushes,          \* number of cliWarner.flush() calls
    warnerLevel,      \* cliWarner.#options.level
    warnerProtection, \* cliWarner.#protectionLevel
    pc,               \* where run() is: "idle", "registry", "command"
    idx,              \* the loop variable i of the running loop of run()
    parsed,           \* the result of #figureOutCommand of the current run()
    running,          \* the callbacks that were called and have not returned
    log,              \* callbacks invoked by the current/last run(), in order
    outcome,          \* how the last call of the API ended
    atBegin,          \* history: #onCmdFunctions when the current run() began
    regLog,           \* history: <<name, id>> of every Command command() returned
    nextCb,           \* number of callbacks created so far
    nextOpt,          \* number of Option objects constructed so far
    protectionLevel,  \* JSTypeChecker.#protectionLevel
    frozenHandlers,   \* JSTypeChecker.#frozenHandlers
    objectFrozen,     \* whether Object.freeze was applied to #__CustomHandler
    handlers,         \* JSTypeChecker.#__CustomHandler: name -> predicate
    sawHardened,      \* history: setProtectionLevel("hardened") was called
    checkArgs,        \* the args of the last JSTC.for(args) call
    checkTypes,       \* the types of the last .check(types) call
    checkResult,      \* what that call returned ("none" before any call)
    invoked,          \* history: the handler calls that call made, in order
    nativeParsed,     \* what the last parse of the native CLI returned
    nativeResult,     \* what the last check of the native matcher returned
    malformed         \* history: <<level, result>> of the addCustomHandler calls
                      \* whose name was no string or whose handler no function

warnerVars == <<warnerLevel, warnerProtection>>
nativeVars == <<nativeParsed, nativeResult>>
cliVars  == <<argv, commands, cmdHeap, onCmdFunctions, warnings, flushes, pc,
              idx, parsed, running, log, outcome, atBegin, regLog, nextCb, nextOpt>>
jstcVars == <<protectionLevel, frozenHandlers, objectFrozen, handlers, sawHardened,
              checkArgs, checkTypes, checkResult, invoked, malformed>>
vars     == <<argv, commands, cmdHeap, onCmdFunctions, warnings, flushes,
              warnerLevel, warnerProtection, pc,
              idx, parsed, running, log, outcome, atBegin, regLog, nextCb,
              nextOpt, protectionLevel, frozenHandlers, objectFrozen, handlers, sawHardened,
              checkArgs, checkTypes, checkResult, invoked, malformed,
              nativeParsed, nativeResult>>

-----------------------------------------------------------------------------
(* Bounds of the model *)

\* tokens after the command name in process.argv
MaxTokens == 3
\* Command objects constructed by command()
MaxCommands == 2
\* Option objects constructed by option()
MaxOptions == 3
\* callbacks created (by the program and by callbacks)
MaxCallbacks == 3
\* successful run() calls in one behaviour
MaxRuns == 2
\* warnings recorded before the program stops registering
MaxWarned == 2

-----------------------------------------------------------------------------
(* Strings *)

\* String.prototype.startsWith("--")
StartsWithDashDash(s) == Len(s) >= 2 /\ s[1] = "-" /\ s[2] = "-"

\* String.prototype.includes(" ")
IncludesSpace(s) == \E k \in 1..Len(s) : s[k] = " "

RECURSIVE ReplaceFirstSpace(_)
\* String.prototype.replace(" ", ""): a string pattern replaces the first match only
ReplaceFirstSpace(s) ==
    IF s = <<>> THEN <<>>
    ELSE IF Head(s) = " " THEN Tail(s)
    ELSE <<Head(s)>> \o ReplaceFirstSpace(Tail(s))

RECURSIVE SplitPipe(_, _)
\* String.prototype.split("|"), cur the piece being read: empty pieces are kept
SplitPipe(s, cur) ==
    IF s = <<>> THEN <<cur>>
    ELSE IF Head(s) = "|" THEN <<cur>> \o SplitPipe(Tail(s), <<>>)
    ELSE SplitPipe(Tail(s), Append(cur, Head(s)))


-----------------------------------------------------------------------------
(* JavaScript values.  A value is [kind, s]: for a string s is its text,   *)
(* for an array s lists the kinds of its elements, for an object s is the  *)
(* shape of its fields, otherwise s is empty.                              *)

Str(s)       == [kind |-> "string", s |-> s]
Undefined    == [kind |-> "undefined", s |-> <<>>]
Null         == [kind |-> "null", s |-> <<>>]
Num1         == [kind |-> "number", s |-> <<>>]
True         == [kind |-> "boolean", s |-> <<>>]
AFunction    == [kind |-> "function", s |-> <<>>]
PlainObject  == [kind |-> "object", s |-> <<>>]
WarningObj   == [kind |-> "object", s |-> <<"message">>]
ProcessObj   == [kind |-> "object", s |-> <<"pid", "cwd", "exit">>]
EmptyArray   == [kind |-> "array", s |-> <<>>]
StringArray  == [kind |-> "array", s |-> <<"string">>]
NumberArray  == [kind |-> "array", s |-> <<"number">>]

\* the typeof operator
TypeOf(v) ==
    CASE v.kind = "string"    -> <<"string">>
      [] v.kind = "number"    -> <<"number">>
      [] v.kind = "boolean"   -> <<"boolean">>
      [] v.kind = "undefined" -> <<"undefined">>
      [] v.kind = "function"  -> <<"function">>
      [] OTHER                -> <<"object">>

\* JSON.stringify: a string for most values, undefined for undefined and functions
JSONstringify(v) ==
    CASE v.kind = "string"    -> Str(<<"\"">> \o v.s \o <<"\"">>)
      [] v.kind = "number"    -> Str(<<"1">>)
      [] v.kind = "boolean"   -> Str(<<"true">>)
      [] v.kind = "null"      -> Str(<<"null">>)
      [] v.kind = "undefined" -> Undefined
      [] v.kind = "function"  -> Undefined
      [] v.kind = "array"     ->
            Str(<<"[">> \o [k \in 1..Len(v.s) |->
                              IF v.s[k] = "string" THEN "\"a\"" ELSE "1"] \o <<"]">>)
      [] OTHER                -> Str(<<"{">> \o v.s \o <<"}">>)

\* the key a value names when it indexes an object (obj[v])
PropertyKey(v) == IF v.kind = "string" THEN v.s ELSE <<"undefined">>

-----------------------------------------------------------------------------
(* JSTC: the structural type matcher *)

\* the predicates registered as custom handlers, applied to a value
ApplyHandler(p, v) ==
    CASE p = "Array"          -> v.kind = "array"
      [] p = "string[]"       -> v.kind = "array" /\ \A k \in 1..Len(v.s) : v.s[k] = "string"
      [] p = "Warning"        -> v.kind = "object" /\ \E k \in 1..Len(v.s) : v.s[k] = "message"
      [] p = "WarnerOptions"  -> v.kind \in {"object", "array"}
      [] p = "NodeJS Process" -> v.kind = "object" /\ v.s = <<"pid", "cwd", "exit">>
      [] p = "Utilities Tag Config" -> v.kind = "object" /\ v.s = <<"tag">>
      [] p = "isNumber"       -> v.kind = "number"
      [] p = "always"         -> TRUE
      [] OTHER                -> FALSE      \* "never": () => false

\* value instanceof t, for the built-in classes
InstanceOf(v, t) ==
    CASE t = <<"Array">>    -> v.kind = "array"
      [] t = <<"Function">> -> v.kind = "function"
      [] t = <<"Object">>   -> v.kind \in {"object", "array", "function"}
      [] OTHER              -> FALSE

\* a string element of a type list, and a class reference
Tag(s)      == [class |-> FALSE, s |-> s]
ClassRef(c) == [class |-> TRUE, s |-> <<c>>]
\* a bare spec and a list spec (an entry of the types array of check)
Bare(t)     == [list |-> FALSE, items |-> <<t>>]
List(ts)    == [list |-> TRUE, items |-> ts]

\* const unionTypes = typeof tRaw === "string" ? tRaw.split("|") : [tRaw]
UnionTypes(tRaw) ==
    IF tRaw.class THEN <<tRaw>>
    ELSE LET parts == SplitPipe(tRaw.s, <<>>)
         IN  [k \in 1..Len(parts) |-> Tag(parts[k])]

\* the methods the table inherits from Object.prototype, as predicates of one
\* argument: toString(v) is a non-empty string, constructor(v) and valueOf(v)
\* are objects, all truthy
ObjectPrototype ==
    [n \in {<<"toString">>, <<"constructor">>, <<"valueOf">>} |-> "always"]

\* this.#__CustomHandler[t]: an own property, else an inherited one, else
\* undefined ("absent")
Lookup(H, key) ==
    IF key \in DOMAIN H THEN H[key]
    ELSE IF key \in DOMAIN ObjectPrototype THEN ObjectPrototype[key]
    ELSE "absent"

\* the three-way test of one branch t against the value
BranchMatches(H, value, t) ==
    IF t.class THEN InstanceOf(value, t.s)
    ELSE IF Lookup(H, t.s) # "absent" THEN ApplyHandler(Lookup(H, t.s), value)
    ELSE TypeOf(value) = t.s

\* the union loop giving up after its first branch
UnionLoopFirstOnly(H, value, unionTypes, k) ==
    k <= Len(unionTypes) /\ BranchMatches(H, value, unionTypes[k])

RECURSIVE UnionLoop(_, _, _, _)
\* for (const t of unionTypes): the first matching branch breaks
UnionLoop(H, value, unionTypes, k) ==
    IF k > Len(unionTypes) THEN FALSE
    ELSE IF BranchMatches(H, value, unionTypes[k]) THEN TRUE
    ELSE UnionLoop(H, value, unionTypes, k + 1)

RECURSIVE ExpectedLoop(_, _, _, _)
\* for (const tRaw of expectedTypes): if (matched) break
ExpectedLoop(H, value, expectedTypes, k) ==
    IF k > Len(expectedTypes) THEN FALSE
    ELSE IF UnionLoop(H, value, UnionTypes(expectedTypes[k]), 1) THEN TRUE
    ELSE ExpectedLoop(H, value, expectedTypes, k + 1)

RECURSIVE PositionLoop(_, _, _, _)
\* for (let i = 0; i < types.length; i++): if (!matched) return false
PositionLoop(H, args, types, i) ==
    IF i > Len(types) THEN TRUE
    ELSE IF ~ExpectedLoop(H, args[i], types[i].items, 1) THEN FALSE
    ELSE PositionLoop(H, args, types, i + 1)

\* check demanding as many values as types
checkExactLength(H, args, types) ==
    IF Len(args) # Len(types) THEN FALSE ELSE PositionLoop(H, args, types, 1)

\* JSTC.for(args).check(types) with the handler table H
check(H, args, types) ==
    IF Len(args) < Len(types) THEN FALSE ELSE PositionLoop(H, args, types, 1)

RECURSIVE UnionInvokedNoBreak(_, _, _, _, _, _)
\* the union loop going on after a branch matched
UnionInvokedNoBreak(H, value, unionTypes, k, pos, base) ==
    IF k > Len(unionTypes) THEN <<>>
    ELSE LET t    == unionTypes[k]
             call == IF ~t.class /\ Lookup(H, t.s) # "absent"
                     THEN <<[pos |-> pos, branch |-> base + k, name |-> t.s]>>
                     ELSE <<>>
         IN  call \o UnionInvokedNoBreak(H, value, unionTypes, k + 1, pos, base)

\* The calls of table functions check makes, in order: [pos, branch, name],
\* branch counting the branches of the position across its list and unions.
RECURSIVE UnionInvoked(_, _, _, _, _, _)
UnionInvoked(H, value, unionTypes, k, pos, base) ==
    IF k > Len(unionTypes) THEN <<>>
    ELSE LET t    == unionTypes[k]
             call == IF ~t.class /\ Lookup(H, t.s) # "absent"
                     THEN <<[pos |-> pos, branch |-> base + k, name |-> t.s]>>
                     ELSE <<>>
         IN  IF BranchMatches(H, value, t) THEN call
             ELSE call \o UnionInvoked(H, value, unionTypes, k + 1, pos, base)

RECURSIVE ExpectedInvoked(_, _, _, _, _, _)
ExpectedInvoked(H, value, expectedTypes, k, pos, base) ==
    IF k > Len(expectedTypes) THEN <<>>
    ELSE LET u == UnionTypes(expectedTypes[k])
         IN  UnionInvoked(H, value, u, 1, pos, base)
             \o (IF UnionLoop(H, value, u, 1) THEN <<>>
                 ELSE ExpectedInvoked(H, value, expectedTypes, k + 1, pos, base + Len(u)))

RECURSIVE PositionInvoked(_, _, _, _)
PositionInvoked(H, args, types, i) ==
    IF i > Len(types) THEN <<>>
    ELSE ExpectedInvoked(H, args[i], types[i].items, 1, i, 0)
         \o (IF ~ExpectedLoop(H, args[i], types[i].items, 1) THEN <<>>
             ELSE PositionInvoked(H, args, types, i + 1))

Invoked(H, args, types) ==
    IF Len(args) < Len(types) THEN <<>> ELSE PositionInvoked(H, args, types, 1)

\* the table of a new JSTypeChecker
SeedHandlers ==
    [n \in {<<"Array">>, <<"string[]">>} |-> n[1]]

\* the table of the shared JSTC once the warner and cli-john modules are loaded
LoadedHandlers ==
    [n \in {<<"Array">>, <<"string[]">>, <<"WarnerOptions">>, <<"Warning">>,
            <<"NodeJS", " ", "Process">>, <<"Utilities", " ", "Tag", " ", "Config">>} |->
        CASE n = <<"NodeJS", " ", "Process">> -> "NodeJS Process"
          [] n = <<"Utilities", " ", "Tag", " ", "Config">> -> "Utilities Tag Config"
          [] OTHER -> n[1]]

ProtectionLevels == {"none", "boundary", "sandbox", "hardened"}

\* the native matcher has checked nothing yet
NativeUnchecked == [called |-> FALSE, value |-> FALSE]


-----------------------------------------------------------------------------
(* The Warner *)

\* options.maxWarnings = Number(options.maxWarnings ?? 20)
MaxWarnings == 20

\* Warner.warn({message}) as #createWarn calls it: the new #warnings.length
warn(w) ==
    IF ~check(handlers, <<WarningObj>>, <<Bare(Tag(<<"Warning">>))>>) THEN w
    ELSE IF w < MaxWarnings THEN w + 1
    ELSE w

-----------------------------------------------------------------------------
(* CLI: the registry *)

\* the result of a call: the method and how it ended
Outcome(op, res) == [op |-> op, res |-> res]

\* Array.prototype.findIndex((a) => a.name === name) over a list of names:
\* the first index that matches, 0 (for -1) when none does
FindIndex(names, name) ==
    IF \E k \in 1..Len(names) : names[k] = name
    THEN CHOOSE k \in 1..Len(names) :
            names[k] = name /\ \A j \in 1..(k - 1) : names[j] # name
    ELSE 0

\* the names of the Commands of #commands, in list order
CommandNames(cmds, heap) == [k \in 1..Len(cmds) |-> heap[cmds[k]].name]

\* the names of the Options of a Command, in list order
OptionNames(cmd) == [k \in 1..Len(cmd.options) |-> cmd.options[k].name]

\* the two rewrites of command() and option(): JSON.stringify of a name the
\* matcher rejects, then replace(" ", "") of a name that includes a space.
\* [name, warnings, threw]; threw: name.includes is called on a non-string
RewriteName(name, w) ==
    LET isString == check(handlers, <<name>>, <<Bare(Tag(<<"string">>))>>)
        w1       == IF isString THEN w ELSE warn(w)
        name1    == IF isString THEN name ELSE JSONstringify(name)
    IN  IF name1.kind # "string"
        THEN [name |-> <<>>, warnings |-> w1, threw |-> TRUE]
        ELSE IF IncludesSpace(name1.s)
        THEN [name |-> ReplaceFirstSpace(name1.s), warnings |-> warn(w1), threw |-> FALSE]
        ELSE [name |-> name1.s, warnings |-> w1, threw |-> FALSE]

\* command() that pushes the new Command even when one has the name
commandAlwaysPushes(name) ==
    /\ pc = "idle"
    /\ Len(cmdHeap) < MaxCommands
    /\ LET r == RewriteName(name, warnings)
           c == [name |-> r.name, options |-> <<>>, onCmdFunctions |-> <<>>]
           id == Len(cmdHeap) + 1
       IN  /\ warnings' = r.warnings
           /\ IF r.threw
              THEN /\ outcome' = Outcome("command", "threw")
                   /\ UNCHANGED <<commands, cmdHeap, regLog>>
              ELSE /\ cmdHeap' = Append(cmdHeap, c)
                   /\ commands' = Append(commands, id)
                   /\ regLog' = Append(regLog, <<r.name, id>>)
                   /\ outcome' = Outcome("command", "returned")
    /\ UNCHANGED <<argv, onCmdFunctions, flushes, pc, idx, parsed, running, log,
                   atBegin, nextCb, nextOpt>>
    /\ UNCHANGED <<jstcVars, warnerVars, nativeVars>>

\* CLI.command(name)
command(name) ==
    /\ pc = "idle"
    /\ Len(cmdHeap) < MaxCommands
    /\ LET r == RewriteName(name, warnings)
           c == [name |-> r.name, options |-> <<>>, onCmdFunctions |-> <<>>]
           id == Len(cmdHeap) + 1
           f == FindIndex(CommandNames(commands, cmdHeap), r.name)
       IN  /\ warnings' = r.warnings
           /\ IF r.threw
              THEN /\ outcome' = Outcome("command", "threw")
                   /\ UNCHANGED <<commands, cmdHeap, regLog>>
              ELSE /\ cmdHeap' = Append(cmdHeap, c)
                   /\ commands' = IF f # 0 THEN [commands EXCEPT ![f] = id]
                                  ELSE Append(commands, id)
                   /\ regLog' = Append(regLog, <<r.name, id>>)
                   /\ outcome' = Outcome("command", "returned")
    /\ UNCHANGED <<argv, onCmdFunctions, flushes, pc, idx, parsed, running, log,
                   atBegin, nextCb, nextOpt>>
    /\ UNCHANGED <<jstcVars, warnerVars, nativeVars>>

\* option() that pushes the new Option even when one has the name
optionAlwaysPushes(id, name) ==
    /\ pc = "idle"
    /\ nextOpt < MaxOptions
    /\ id \in 1..Len(cmdHeap)
    /\ LET r == RewriteName(name, warnings)
           o == [name |-> r.name, id |-> nextOpt + 1, onCmdFunctions |-> <<>>]
       IN  /\ warnings' = r.warnings
           /\ IF r.threw
              THEN /\ outcome' = Outcome("option", "threw")
                   /\ UNCHANGED <<cmdHeap, nextOpt>>
              ELSE /\ cmdHeap' = [cmdHeap EXCEPT ![id].options = Append(@, o)]
                   /\ nextOpt' = nextOpt + 1
                   /\ outcome' = Outcome("option", "returned")
    /\ UNCHANGED <<argv, commands, onCmdFunctions, flushes, pc, idx, parsed, running,
                   log, atBegin, regLog, nextCb>>
    /\ UNCHANGED <<jstcVars, warnerVars, nativeVars>>

\* CLI.Command.option(name), called on the Command object with this id
option(id, name) ==
    /\ pc = "idle"
    /\ nextOpt < MaxOptions
    /\ id \in 1..Len(cmdHeap)
    /\ LET r == RewriteName(name, warnings)
           o == [name |-> r.name, id |-> nextOpt + 1, onCmdFunctions |-> <<>>]
           f == FindIndex(OptionNames(cmdHeap[id]), r.name)
       IN  /\ warnings' = r.warnings
           /\ IF r.threw
              THEN /\ outcome' = Outcome("option", "threw")
                   /\ UNCHANGED <<cmdHeap, nextOpt>>
              ELSE /\ cmdHeap' = [cmdHeap EXCEPT ![id].options =
                                    IF f # 0 THEN [@ EXCEPT ![f] = o] ELSE Append(@, o)]
                   /\ nextOpt' = nextOpt + 1
                   /\ outcome' = Outcome("option", "returned")
    /\ UNCHANGED <<argv, commands, onCmdFunctions, flushes, pc, idx, parsed, running,
                   log, atBegin, regLog, nextCb>>
    /\ UNCHANGED <<jstcVars, warnerVars, nativeVars>>


\* what a subscriber does when it is called: return, raise, or subscribe a
\* new callback to the Registry (cli.on) or to the matched Command (cmd.on)
\* and return
CallbackKinds == {"ret", "throw", "onCli", "onCmd"}

\* String.prototype.toLowerCase on an event name
ToLowerCase(s) ==
    [k \in 1..Len(s) |-> IF s[k] \in {"Command", "COMMAND"} THEN "command" ELSE s[k]]

\* the switch of on() comparing the event as it was given
OnDecisionCaseSensitive(event, func) ==
    IF ~check(handlers, <<event, func>>,
              <<Bare(Tag(<<"string">>)), Bare(Tag(<<"function">>))>>)
    THEN "throw"
    ELSE IF event.kind # "string" THEN "throw"
    ELSE IF event.s = <<"command">> THEN "push"
    ELSE "warn"

\* the switch of on() without its default case
OnDecisionNoDefault(event, func) ==
    IF ~check(handlers, <<event, func>>,
              <<Bare(Tag(<<"string">>)), Bare(Tag(<<"function">>))>>)
    THEN "throw"
    ELSE IF event.kind # "string" THEN "throw"
    ELSE IF ToLowerCase(event.s) = <<"command">> THEN "push"
    ELSE "ignore"

\* the switch of on(): "push" for case "command", "warn" for default, "throw"
\* when the matcher rejects [event, func] against ["string", "function"]
OnDecision(event, func) ==
    IF ~check(handlers, <<event, func>>,
              <<Bare(Tag(<<"string">>)), Bare(Tag(<<"function">>))>>)
    THEN "throw"
    ELSE IF event.kind # "string" THEN "throw"     \* event.toLowerCase is not a function
    ELSE IF ToLowerCase(event.s) = <<"command">> THEN "push"
    ELSE "warn"

\* CLI.on(event, func); kind is what func does when it is called
on(event, func, kind) ==
    /\ pc = "idle"
    /\ nextCb < MaxCallbacks
    /\ LET d == OnDecision(event, func)
       IN  /\ onCmdFunctions' = IF d = "push"
                                THEN Append(onCmdFunctions, [id |-> nextCb + 1, kind |-> kind])
                                ELSE onCmdFunctions
           /\ nextCb' = IF d = "push" THEN nextCb + 1 ELSE nextCb
           /\ warnings' = IF d = "warn" THEN warn(warnings) ELSE warnings
           /\ outcome' = Outcome("on", IF d = "throw" THEN "threw" ELSE "returned")
    /\ UNCHANGED <<argv, commands, cmdHeap, flushes, pc, idx, parsed, running, log,
                   atBegin, regLog, nextOpt>>
    /\ UNCHANGED <<jstcVars, warnerVars, nativeVars>>

\* CLI.Command.on(event, func), called on the Command object with this id
commandOn(id, event, func, kind) ==
    /\ pc = "idle"
    /\ nextCb < MaxCallbacks
    /\ id \in 1..Len(cmdHeap)
    /\ LET d == OnDecision(event, func)
       IN  /\ cmdHeap' = IF d = "push"
                         THEN [cmdHeap EXCEPT ![id].onCmdFunctions =
                                 Append(@, [id |-> nextCb + 1, kind |-> kind])]
                         ELSE cmdHeap
           /\ nextCb' = IF d = "push" THEN nextCb + 1 ELSE nextCb
           /\ warnings' = IF d = "warn" THEN warn(warnings) ELSE warnings
           /\ outcome' = Outcome("Command.on", IF d = "throw" THEN "threw" ELSE "returned")
    /\ UNCHANGED <<argv, commands, onCmdFunctions, flushes, pc, idx, parsed, running,
                   log, atBegin, regLog, nextOpt>>
    /\ UNCHANGED <<jstcVars, warnerVars, nativeVars>>

\* CLI.Command.Option.on(event, func), called on the k-th Option of the
\* Command object with this id
optionOn(id, k, event, func, kind) ==
    /\ pc = "idle"
    /\ nextCb < MaxCallbacks
    /\ id \in 1..Len(cmdHeap)
    /\ k \in 1..Len(cmdHeap[id].options)
    /\ LET d == OnDecision(event, func)
       IN  /\ cmdHeap' = IF d = "push"
                         THEN [cmdHeap EXCEPT ![id].options[k].onCmdFunctions =
                                 Append(@, [id |-> nextCb + 1, kind |-> kind])]
                         ELSE cmdHeap
           /\ nextCb' = IF d = "push" THEN nextCb + 1 ELSE nextCb
           /\ warnings' = IF d = "warn" THEN warn(warnings) ELSE warnings
           /\ outcome' = Outcome("Option.on", IF d = "throw" THEN "threw" ELSE "returned")
    /\ UNCHANGED <<argv, commands, onCmdFunctions, flushes, pc, idx, parsed, running,
                   log, atBegin, regLog, nextOpt>>
    /\ UNCHANGED <<jstcVars, warnerVars, nativeVars>>

-----------------------------------------------------------------------------
(* CLI: the tokenizer *)

\* CLI.Command.metadata(): the subscriber list is copied
metadata(cmd) ==
    [isNull |-> FALSE,
     name |-> cmd.name,
     options |-> [k \in 1..Len(cmd.options) |->
                    [name |-> cmd.options[k].name,
                     onCmdFunctions |-> cmd.options[k].onCmdFunctions]],
     onCmdFunctions |-> cmd.onCmdFunctions]

\* commandMetadata: null
NullMetadata == [isNull |-> TRUE, name |-> <<>>, options |-> <<>>, onCmdFunctions |-> <<>>]

\* the result of #figureOutCommand when it fails
Failed ==
    [options |-> <<>>, commandName |-> <<>>, commandMetadata |-> NullMetadata,
     commandArgs |-> <<>>, failed |-> TRUE, commandId |-> 0]

\* the native CLI has parsed nothing yet
NativeNone == [called |-> FALSE, command |-> <<>>, commandArgs |-> <<>>, options |-> <<>>]

\* let [, , ...commands] = this.#process.argv
DropTwo(v) == IF Len(v) <= 2 THEN <<>> ELSE SubSeq(v, 3, Len(v))

RECURSIVE CommandArgsLoop(_, _, _)
\* the first loop: push args[i] until one starts with "--" (i counts from 1)
CommandArgsLoop(args, i, commandArgs) ==
    IF i > Len(args) THEN commandArgs
    ELSE IF StartsWithDashDash(args[i]) THEN commandArgs
    ELSE CommandArgsLoop(args, i + 1, Append(commandArgs, args[i]))

RECURSIVE ValuesLoopNoBreak(_, _, _)
\* ValuesLoop with "continue" where the code has "break"
ValuesLoopNoBreak(leftover, j, values) ==
    IF j > Len(leftover) THEN values
    ELSE IF StartsWithDashDash(leftover[j]) THEN ValuesLoopNoBreak(leftover, j + 1, values)
    ELSE ValuesLoopNoBreak(leftover, j + 1, Append(values, leftover[j]))

RECURSIVE ValuesLoop(_, _, _)
\* the inner loop: push leftover[j] until one starts with "--"
ValuesLoop(leftover, j, values) ==
    IF j > Len(leftover) THEN values
    ELSE IF StartsWithDashDash(leftover[j]) THEN values
    ELSE ValuesLoop(leftover, j + 1, Append(values, leftover[j]))

RECURSIVE OptionsLoopSkipEmpty(_, _, _)
\* OptionsLoop that pushes an option only when it has arguments
OptionsLoopSkipEmpty(leftover, i, options) ==
    IF i > Len(leftover) THEN options
    ELSE IF ~StartsWithDashDash(leftover[i]) \/ ValuesLoop(leftover, i + 1, <<>>) = <<>>
    THEN OptionsLoopSkipEmpty(leftover, i + 1, options)
    ELSE OptionsLoopSkipEmpty(leftover, i + 1,
                     Append(options, [option |-> leftover[i],
                                      arguments |-> ValuesLoop(leftover, i + 1, <<>>)]))

RECURSIVE OptionsLoop(_, _, _)
\* the second loop: every token of leftover that starts with "--" opens an option
OptionsLoop(leftover, i, options) ==
    IF i > Len(leftover) THEN options
    ELSE IF ~StartsWithDashDash(leftover[i]) THEN OptionsLoop(leftover, i + 1, options)
    ELSE OptionsLoop(leftover, i + 1,
                     Append(options, [option |-> leftover[i],
                                      arguments |-> ValuesLoop(leftover, i + 1, <<>>)]))

\* CLI.#figureOutCommand() on the argument vector v and the registry
figureOutCommand(v, cmds, heap) ==
    LET cs == DropTwo(v)
    IN  IF Len(cs) = 0 THEN Failed
        ELSE LET f == FindIndex(CommandNames(cmds, heap), cs[1])
             IN  IF f = 0 THEN Failed
                 ELSE LET args        == SubSeq(cs, 2, Len(cs))
                          commandArgs == CommandArgsLoop(args, 1, <<>>)
                          leftover    == SubSeq(args, Len(commandArgs) + 1, Len(args))
                      IN  [options |-> OptionsLoop(leftover, 1, <<>>),
                           commandName |-> cs[1],
                           commandMetadata |-> metadata(heap[cmds[f]]),
                           commandArgs |-> commandArgs,
                           failed |-> FALSE,
                           commandId |-> cmds[f]]


-----------------------------------------------------------------------------
(* CLI: run().  A call of run() is a sequence of steps: runBegin tokenizes; *)
(* invoke enters the next subscriber of the running loop; the subscriber   *)
(* then returns (callbackReturns) or raises (callbackThrows); nextLoop     *)
(* leaves the first loop for the second; runEnd flushes and returns.       *)

\* LoopList read from the last subscriber to the first
LoopListReversed ==
    LET l == IF pc = "registry" THEN onCmdFunctions
             ELSE parsed.commandMetadata.onCmdFunctions
    IN  [k \in 1..Len(l) |-> l[Len(l) + 1 - k]]

\* LoopList whose second loop reads the subscribers of the first Command of
\* the list, whatever its name
LoopListFirstCommand ==
    IF pc = "registry" THEN onCmdFunctions
    ELSE IF commands = <<>> THEN <<>> ELSE cmdHeap[commands[1]].onCmdFunctions

\* LoopList whose second loop goes on with the subscribers of the first
\* Option of the matched Command
LoopListWithOptions ==
    IF pc = "registry" THEN onCmdFunctions
    ELSE parsed.commandMetadata.onCmdFunctions
         \o (IF parsed.commandMetadata.options = <<>> THEN <<>>
             ELSE parsed.commandMetadata.options[1].onCmdFunctions)

\* the list the running loop reads: this.#onCmdFunctions itself in the first
\* loop, the copy in commandMetadata in the second
LoopList ==
    IF pc = "registry" THEN onCmdFunctions
    ELSE parsed.commandMetadata.onCmdFunctions

\* runBegin without "if (failed) return"
runBeginNoFailedCheck ==
    /\ pc = "idle"
    /\ flushes < MaxRuns
    /\ parsed' = figureOutCommand(argv, commands, cmdHeap)
    /\ log' = <<>>
    /\ atBegin' = onCmdFunctions
    /\ idx' = 0
    /\ outcome' = Outcome("run", "running")
    /\ pc' = "registry"
    /\ UNCHANGED <<argv, commands, cmdHeap, onCmdFunctions, warnings, flushes, running,
                   regLog, nextCb, nextOpt>>
    /\ UNCHANGED <<jstcVars, warnerVars, nativeVars>>

\* run(), up to "if (failed) return"
runBegin ==
    /\ pc = "idle"
    /\ flushes < MaxRuns
    /\ LET r == figureOutCommand(argv, commands, cmdHeap)
       IN  /\ parsed' = r
           /\ log' = <<>>
           /\ atBegin' = onCmdFunctions
           /\ idx' = 0
           /\ IF r.failed
              THEN /\ outcome' = Outcome("run", "noop")
                   /\ pc' = "idle"
              ELSE /\ outcome' = Outcome("run", "running")
                   /\ pc' = "registry"
    /\ UNCHANGED <<argv, commands, cmdHeap, onCmdFunctions, warnings, flushes, running,
                   regLog, nextCb, nextOpt>>
    /\ UNCHANGED <<jstcVars, warnerVars, nativeVars>>

\* the loop test i < length holds: the body calls the subscriber
invoke ==
    /\ pc \in {"registry", "command"}
    /\ running = <<>>
    /\ idx < Len(LoopList)
    /\ running' = Append(running, LoopList[idx + 1])
    /\ log' = Append(log, [level |-> pc, cb |-> LoopList[idx + 1]])
    /\ UNCHANGED <<argv, commands, cmdHeap, onCmdFunctions, warnings, flushes, pc, idx,
                   parsed, outcome, atBegin, regLog, nextCb, nextOpt>>
    /\ UNCHANGED <<jstcVars, warnerVars, nativeVars>>

\* the running subscriber does its work and returns: i++
callbackReturns(kind) ==
    /\ running # <<>>
    /\ running[1].kind # "throw"
    /\ LET new == [id |-> nextCb + 1, kind |-> kind]
       IN  CASE running[1].kind = "onCli" ->
                  /\ nextCb < MaxCallbacks
                  /\ onCmdFunctions' = Append(onCmdFunctions, new)
                  /\ nextCb' = nextCb + 1
                  /\ UNCHANGED cmdHeap
             [] running[1].kind = "onCmd" ->
                  /\ nextCb < MaxCallbacks
                  /\ cmdHeap' = [cmdHeap EXCEPT ![parsed.commandId].onCmdFunctions =
                                   Append(@, new)]
                  /\ nextCb' = nextCb + 1
                  /\ UNCHANGED onCmdFunctions
             [] OTHER ->
                  /\ kind = "ret"
                  /\ UNCHANGED <<onCmdFunctions, cmdHeap, nextCb>>
    /\ running' = <<>>
    /\ idx' = idx + 1
    /\ UNCHANGED <<argv, commands, warnings, flushes, pc, parsed, log, outcome, atBegin,
                   regLog, nextOpt>>
    /\ UNCHANGED <<jstcVars, warnerVars, nativeVars>>

\* the running subscriber raises: nothing in run() catches it
callbackThrows ==
    /\ running # <<>>
    /\ running[1].kind = "throw"
    /\ running' = <<>>
    /\ pc' = "idle"
    /\ outcome' = Outcome("run", "threw")
    /\ UNCHANGED <<argv, commands, cmdHeap, onCmdFunctions, warnings, flushes, idx,
                   parsed, log, atBegin, regLog, nextCb, nextOpt>>
    /\ UNCHANGED <<jstcVars, warnerVars, nativeVars>>

\* the first loop ends: const onCmdFunctions = commandMetadata?.onCmdFunctions ?? []
nextLoop ==
    /\ pc = "registry"
    /\ running = <<>>
    /\ idx >= Len(onCmdFunctions)
    /\ pc' = "command"
    /\ idx' = 0
    /\ UNCHANGED <<argv, commands, cmdHeap, onCmdFunctions, warnings, flushes, parsed,
                   running, log, outcome, atBegin, regLog, nextCb, nextOpt>>
    /\ UNCHANGED <<jstcVars, warnerVars, nativeVars>>

\* the second loop ends: cliWarner.flush() and run() returns
runEnd ==
    /\ pc = "command"
    /\ running = <<>>
    /\ idx >= Len(parsed.commandMetadata.onCmdFunctions)
    /\ flushes' = flushes + 1
    /\ pc' = "idle"
    /\ outcome' = Outcome("run", "returned")
    /\ UNCHANGED <<argv, commands, cmdHeap, onCmdFunctions, warnings, idx, parsed,
                   running, log, atBegin, regLog, nextCb, nextOpt>>
    /\ UNCHANGED <<jstcVars, warnerVars, nativeVars>>

-----------------------------------------------------------------------------
(* The inputs of the CLI *)

Prog   == <<"node">>
Script == <<"cli">>

\* names the program registers and the host passes as the command
Names == {<<"a">>, <<"b">>}

\* tokens that follow the command name
Tokens == {<<"a">>, <<"-", "a">>, <<"-", "-">>, <<"-", "-", "f">>}

\* the sequences over S of length at most n
RECURSIVE SeqsUpTo(_, _)
SeqsUpTo(S, n) ==
    IF n = 0 THEN {<<>>}
    ELSE LET shorter == SeqsUpTo(S, n - 1)
         IN  shorter \cup {Append(s, x) : s \in {q \in shorter : Len(q) = n - 1}, x \in S}

\* argument vectors: too short to hold a command, or a command and its tokens
ArgVectors ==
    {<<>>, <<Prog>>, <<Prog, Script>>}
    \cup {<<Prog, Script, c>> \o ts :
            c \in Names \cup {<<"-", "-", "f">>}, ts \in SeqsUpTo(Tokens, MaxTokens)}

\* the state when the modules are loaded and new CLI(process) has returned
InitCLI ==
    /\ commands = <<>>
    /\ cmdHeap = <<>>
    /\ onCmdFunctions = <<>>
    /\ warnings = 0
    /\ flushes = 0
    /\ warnerLevel = "summary"
    /\ warnerProtection = "boundary"
    /\ nativeParsed = NativeNone
    /\ pc = "idle"
    /\ idx = 0
    /\ parsed = Failed
    /\ running = <<>>
    /\ log = <<>>
    /\ outcome = Outcome("new", "returned")
    /\ atBegin = <<>>
    /\ regLog = <<>>
    /\ nextCb = 0
    /\ nextOpt = 0

InitJSTC ==
    /\ protectionLevel = "boundary"
    /\ frozenHandlers = FALSE
    /\ objectFrozen = FALSE
    /\ sawHardened = FALSE
    /\ checkArgs = <<>>
    /\ checkTypes = <<>>
    /\ checkResult = "none"
    /\ invoked = <<>>
    /\ malformed = {}
    /\ nativeResult = NativeUnchecked

-----------------------------------------------------------------------------
(* The tokenizer on every argument vector: the program registers Commands  *)
(* and calls run()                                                         *)

InitTokenizer ==
    /\ argv \in ArgVectors
    /\ InitCLI
    /\ InitJSTC
    /\ handlers = LoadedHandlers

NextTokenizer ==
    \/ \E n \in Names : command(Str(n))
    \/ runBegin
    \/ nextLoop
    \/ runEnd

SpecTokenizer == InitTokenizer /\ [][NextTokenizer]_vars


-----------------------------------------------------------------------------
(* The tokenizer: claims *)

\* the tokens after the command name
ArgsOf(v) == SubSeq(v, 4, Len(v))

\* the third entry of the argument vector names a registered Command
NamesRegistered(v) ==
    /\ Len(v) >= 3
    /\ \E k \in 1..Len(commands) : cmdHeap[commands[k]].name = v[3]

\* run() has tokenized argv and nothing was registered since
Tokenized == outcome.op = "run"

\* the elements of a finite set of numbers, in increasing order
Sorted(S) ==
    CHOOSE s \in [1..Cardinality(S) -> S] :
        \A i, j \in 1..Cardinality(S) : i < j => s[i] < s[j]

\* reference: the longest run of leading tokens that do not start with "--"
RefCommandArgs(args) ==
    LET n == CHOOSE m \in 0..Len(args) :
                /\ \A k \in 1..m : ~StartsWithDashDash(args[k])
                /\ m = Len(args) \/ StartsWithDashDash(args[m + 1])
    IN  SubSeq(args, 1, n)

\* reference: one entry per token that starts with "--", in token order, with
\* the tokens between it and the next such token
RefOptions(args) ==
    LET at == Sorted({k \in 1..Len(args) : StartsWithDashDash(args[k])})
    IN  [m \in 1..Len(at) |->
           [option    |-> args[at[m]],
            arguments |-> SubSeq(args, at[m] + 1,
                                 (IF m < Len(at) THEN at[m + 1] ELSE Len(args) + 1) - 1)]]

\* C1: when the third entry of the argument vector names a registered
\* Command, the tokenizer succeeds and its result is the reference one:
\* commandArgs is the longest leading run of tokens not starting with "--",
\* options has one entry per token starting with "--", in order, named by
\* the whole token and holding the tokens up to the next "--" token.
C1_TokenizerEqualsReference ==
    (Tokenized /\ NamesRegistered(argv)) =>
        /\ ~parsed.failed
        /\ parsed.commandName = argv[3]
        /\ parsed.commandArgs = RefCommandArgs(ArgsOf(argv))
        /\ parsed.options = RefOptions(ArgsOf(argv))

\* the shape of [build, --force, now, --verbose]: no commandArgs, an option
\* with one argument, then an option with none
C1_Witness ==
    /\ Tokenized /\ NamesRegistered(argv)
    /\ ArgsOf(argv) = << <<"-", "-", "f">>, <<"a">>, <<"-", "-">> >>
    /\ parsed.commandArgs = <<>>
    /\ parsed.options = << [option |-> <<"-", "-", "f">>, arguments |-> << <<"a">> >>],
                           [option |-> <<"-", "-">>, arguments |-> <<>>] >>

RECURSIVE Flatten(_)
\* the tokens of an option list: each name followed by its arguments
Flatten(options) ==
    IF options = <<>> THEN <<>>
    ELSE <<options[1].option>> \o options[1].arguments \o Flatten(Tail(options))

\* the tokens of a {command, args, options} triple after the script path
Serialize(c, args, options) == <<c>> \o args \o Flatten(options)

\* the valid triples whose tokens are rest: the command, n args, and the
\* remaining tokens cut into options at the positions of cuts
TriplesOf(rest) ==
    LET opts(r, cuts) ==
            LET at == Sorted(cuts)
            IN  [m \in 1..Len(at) |->
                   [option    |-> r[at[m]],
                    arguments |-> SubSeq(r, at[m] + 1,
                                         (IF m < Len(at) THEN at[m + 1] ELSE Len(r) + 1) - 1)]]
        all == UNION {{[command |-> rest[1],
                        args    |-> SubSeq(rest, 2, n + 1),
                        options |-> opts(SubSeq(rest, n + 2, Len(rest)), cuts)] :
                          cuts \in SUBSET (1..(Len(rest) - 1 - n))} :
                      n \in 0..(Len(rest) - 1)}
    IN  {t \in all :
           /\ Serialize(t.command, t.args, t.options) = rest
           /\ \A k \in 1..Len(t.args) : ~StartsWithDashDash(t.args[k])
           /\ \A m \in 1..Len(t.options) :
                 /\ StartsWithDashDash(t.options[m].option)
                 /\ \A k \in 1..Len(t.options[m].arguments) :
                       ~StartsWithDashDash(t.options[m].arguments[k])}

\* C3: round trip.  When the argument vector is [prog, script, c] followed
\* by the tokens of a valid triple (args without "--" tokens, options named
\* by "--" tokens with arguments without "--" tokens) and c is registered,
\* the tokenizer returns that triple, and the tokens of its result are the
\* tokens after the script path, none lost and none duplicated.
C3_RoundTrip ==
    (Tokenized /\ NamesRegistered(argv)) =>
        /\ ~parsed.failed
        /\ Serialize(parsed.commandName, parsed.commandArgs, parsed.options) = DropTwo(argv)
        /\ \A t \in TriplesOf(DropTwo(argv)) :
              /\ parsed.commandName = t.command
              /\ parsed.commandArgs = t.args
              /\ parsed.options = t.options

\* a triple with an argument, an option with an argument and an option with none
C3_Witness ==
    /\ Tokenized /\ NamesRegistered(argv)
    /\ TriplesOf(DropTwo(argv)) # {}
    /\ Len(parsed.commandArgs) = 1
    /\ Len(parsed.options) = 1
    /\ Len(parsed.options[1].arguments) = 1


-----------------------------------------------------------------------------
(* The registry and run(): the program registers Commands and subscribers, *)
(* then calls run(); subscribers run, and may subscribe others             *)

\* argument vectors: no command, a command alone, a command with tokens
DispatchVectors ==
    {<<Prog, Script>>,
     <<Prog, Script, <<"a">> >>,
     <<Prog, Script, <<"b">>, <<"a">>, <<"-", "-", "f">>, <<"a">> >>}

\* events passed to on(): the valid one in capitals, and "run"
Events == {<<"COMMAND">>, <<"run">>}

Init ==
    /\ argv \in DispatchVectors
    /\ InitCLI
    /\ InitJSTC
    /\ handlers = LoadedHandlers

Next ==
    \/ \E n \in Names : warnings < MaxWarned /\ command(Str(n))
    \/ \E e \in Events, k \in CallbackKinds :
          warnings < MaxWarned /\ on(Str(e), AFunction, k)
    \/ \E id \in 1..MaxCommands, e \in Events, k \in CallbackKinds :
          warnings < MaxWarned /\ commandOn(id, Str(e), AFunction, k)
    \/ runBegin
    \/ invoke
    \/ \E k \in CallbackKinds : callbackReturns(k)
    \/ callbackThrows
    \/ nextLoop
    \/ runEnd

Spec == Init /\ [][Next]_vars


-----------------------------------------------------------------------------
(* run(): claims *)

\* the callbacks run() called at one level ("registry" or "command"), in order
Called(level) ==
    LET l == SelectSeq(log, LAMBDA e : e.level = level)
    IN  [k \in 1..Len(l) |-> l[k].cb]

\* s is the beginning of l
IsPrefix(s, l) == Len(s) <= Len(l) /\ s = SubSeq(l, 1, Len(s))

\* the number of times run() called cb
TimesCalled(cb) == Cardinality({k \in 1..Len(log) : log[k].cb = cb})

\* the subscribers of the matched Command when run() tokenized
Snapshot == parsed.commandMetadata.onCmdFunctions

\* C2: a run() whose argument vector has no token after the first two, or
\* whose first token names no registered Command, is a silent no-op: it
\* returns at once, no subscriber is called, no warning is recorded and
\* flush is not called.
C2_FailedRunIsSilent ==
    [][(pc = "idle" /\ outcome'.op = "run" /\ ~NamesRegistered(argv)) =>
          /\ outcome'.res = "noop"
          /\ pc' = "idle"
          /\ running' = <<>>
          /\ log' = <<>>
          /\ warnings' = warnings
          /\ flushes' = flushes]_vars

\* run() was a no-op although Commands and subscribers are registered
C2_Witness ==
    /\ outcome = Outcome("run", "noop")
    /\ Len(argv) >= 3
    /\ commands # <<>>
    /\ onCmdFunctions # <<>>
    /\ cmdHeap[commands[1]].onCmdFunctions # <<>>
    /\ log = <<>>

\* the order of the calls of one run(), in every state
CallOrder ==
    /\ log = [k \in 1..Len(Called("registry")) |->
                 [level |-> "registry", cb |-> Called("registry")[k]]]
             \o [k \in 1..Len(Called("command")) |->
                 [level |-> "command", cb |-> Called("command")[k]]]
    /\ IsPrefix(Called("registry"), onCmdFunctions)
    /\ IsPrefix(Called("command"), Snapshot)
    /\ Len(running) <= 1
    /\ outcome = Outcome("run", "returned") =>
          /\ Len(Called("registry")) >= Len(atBegin)
          /\ Called("command") = Snapshot

C5_RegistrySnapshot ==
    outcome.op = "run" =>
        /\ IsPrefix(Called("registry"), atBegin)
        /\ outcome.res = "returned" => Called("registry") = atBegin

\* C6: when a run() that resolved a Command is over, every Registry-level
\* subscriber and every subscriber of the matched Command registered before
\* run() began was called exactly once, whatever the subscribers did.
C6_NoCancellation ==
    (outcome.op = "run" /\ outcome.res \in {"returned", "threw"}) =>
        /\ \A k \in 1..Len(atBegin) : TimesCalled(atBegin[k]) = 1
        /\ \A k \in 1..Len(Snapshot) : TimesCalled(Snapshot[k]) = 1


-----------------------------------------------------------------------------
(* The registry: the program registers Commands and Options under names of  *)
(* every kind, and calls run()                                             *)

\* arguments of command() and option(): strings without a space, with one
\* and with two, and values that are not strings
NameInputs ==
    {Str(<<"a">>), Str(<<"a", "b">>), Str(<<"a", " ", "b">>),
     Str(<<"a", " ", "b", " ", "c">>), Num1, Undefined}

\* argument vectors that name a Command by each name a registry can hold
RegistryVectors ==
    {<<Prog, Script, n>> : n \in {<<"a">>, <<"a", "b">>, <<"a", "b", " ", "c">>, <<"1">>}}

InitRegistry ==
    /\ argv \in RegistryVectors
    /\ InitCLI
    /\ InitJSTC
    /\ handlers = LoadedHandlers

NextRegistry ==
    \/ \E n \in NameInputs : warnings < MaxWarned /\ command(n)
    \/ \E id \in 1..MaxCommands, n \in NameInputs : warnings < MaxWarned /\ option(id, n)
    \/ runBegin
    \/ nextLoop
    \/ runEnd

SpecRegistry == InitRegistry /\ [][NextRegistry]_vars

\* the names a list of records holds are pairwise different
UniqueNames(l) == \A i, j \in 1..Len(l) : i # j => l[i].name # l[j].name

\* C7: a Command's option list never holds two Options with the same name;
\* option(n) puts the Option it constructs in the slot of the Option named
\* n when there is one, leaving the length and the other Options as they
\* were, and at the end of the list otherwise.
C7_OptionReplaceOrAppend ==
    /\ [](\A id \in 1..Len(cmdHeap) : UniqueNames(cmdHeap[id].options))
    /\ [][nextOpt' # nextOpt =>
            \E id \in 1..Len(cmdHeap) :
               LET old == cmdHeap[id].options
                   new == cmdHeap'[id].options
               IN  /\ \A other \in 1..Len(cmdHeap) : other # id => cmdHeap'[other] = cmdHeap[other]
                   /\ \E f \in 1..Len(new) :
                         /\ new[f].id = nextOpt'
                         /\ new[f].onCmdFunctions = <<>>
                         /\ IF \E k \in 1..Len(old) : old[k].name = new[f].name
                            THEN /\ Len(new) = Len(old)
                                 /\ old[f].name = new[f].name
                                 /\ \A k \in 1..Len(old) : k # f => new[k] = old[k]
                            ELSE new = Append(old, new[f])]_vars

\* the first of two Options was replaced by the third Option constructed
C7_Witness ==
    \E id \in 1..Len(cmdHeap) :
        /\ Len(cmdHeap[id].options) = 2
        /\ cmdHeap[id].options[1].id = 3
        /\ cmdHeap[id].options[2].id = 2

\* the names command() has registered, and the last Command registered for one
RegisteredNames == {regLog[k][1] : k \in 1..Len(regLog)}
LastRegistered(n) ==
    LET last == CHOOSE k \in 1..Len(regLog) :
                   regLog[k][1] = n /\ \A j \in (k + 1)..Len(regLog) : regLog[j][1] # n
    IN  regLog[last][2]

\* C8: the command list never holds two Commands with the same name, its
\* length is the number of different names registered, and for every
\* registered name run() resolves the Command registered last under it.
C8_CommandReplaceOnConflict ==
    /\ UniqueNames([k \in 1..Len(commands) |-> cmdHeap[commands[k]]])
    /\ Len(commands) = Cardinality(RegisteredNames)
    /\ \A n \in RegisteredNames :
          LET r == figureOutCommand(<<Prog, Script, n>>, commands, cmdHeap)
          IN  ~r.failed /\ r.commandId = LastRegistered(n)
    /\ (Tokenized /\ ~parsed.failed) => parsed.commandId = LastRegistered(argv[3])

\* run() resolved the second Command registered under the name of the first
C8_Witness ==
    /\ Tokenized /\ ~parsed.failed
    /\ Len(regLog) = 2
    /\ Len(commands) = 1
    /\ regLog[1][1] = regLog[2][1]
    /\ parsed.commandId = 2

\* C9: no Command of the registry and no Option of a Command has a name
\* that contains a space.
C9_NoSpaceInNames ==
    /\ \A k \in 1..Len(commands) : ~IncludesSpace(cmdHeap[commands[k]].name)
    /\ \A id \in 1..Len(cmdHeap) : \A k \in 1..Len(cmdHeap[id].options) :
          ~IncludesSpace(cmdHeap[id].options[k].name)


-----------------------------------------------------------------------------
(* JSTC: the protection level and the custom handlers of one instance *)

\* setProtectionLevel that sets #frozenHandlers and leaves out Object.freeze
setProtectionLevelNoFreeze(level) ==
    /\ pc = "idle"
    /\ IF level \in ProtectionLevels
       THEN /\ protectionLevel' = level
            /\ IF level \in {"sandbox", "hardened"}
               THEN frozenHandlers' = TRUE
               ELSE UNCHANGED frozenHandlers
       ELSE UNCHANGED <<protectionLevel, frozenHandlers>>
    /\ sawHardened' = (sawHardened \/ level = "hardened")
    /\ outcome' = Outcome("setProtectionLevel", "returned")
    /\ UNCHANGED <<handlers, objectFrozen>>
    /\ UNCHANGED <<checkArgs, checkTypes, checkResult, invoked, malformed>>
    /\ UNCHANGED <<argv, commands, cmdHeap, onCmdFunctions, warnings, flushes, pc, idx,
                   parsed, running, log, atBegin, regLog, nextCb, nextOpt, warnerVars, nativeVars>>

\* setProtectionLevel that freezes the table without setting #frozenHandlers
setProtectionLevelNoFlag(level) ==
    /\ pc = "idle"
    /\ IF level \in ProtectionLevels
       THEN /\ protectionLevel' = level
            /\ IF level \in {"sandbox", "hardened"}
               THEN objectFrozen' = TRUE
               ELSE UNCHANGED objectFrozen
       ELSE UNCHANGED <<protectionLevel, objectFrozen>>
    /\ UNCHANGED frozenHandlers
    /\ sawHardened' = (sawHardened \/ level = "hardened")
    /\ outcome' = Outcome("setProtectionLevel", "returned")
    /\ UNCHANGED handlers
    /\ UNCHANGED <<checkArgs, checkTypes, checkResult, invoked, malformed>>
    /\ UNCHANGED <<argv, commands, cmdHeap, onCmdFunctions, warnings, flushes, pc, idx,
                   parsed, running, log, atBegin, regLog, nextCb, nextOpt, warnerVars, nativeVars>>

\* JSTypeChecker.setProtectionLevel(level)
setProtectionLevel(level) ==
    /\ pc = "idle"
    /\ IF level \in ProtectionLevels
       THEN /\ protectionLevel' = level
            /\ IF level \in {"sandbox", "hardened"}
               THEN objectFrozen' = TRUE /\ frozenHandlers' = TRUE
               ELSE UNCHANGED <<objectFrozen, frozenHandlers>>
       ELSE UNCHANGED <<protectionLevel, objectFrozen, frozenHandlers>>
    /\ sawHardened' = (sawHardened \/ level = "hardened")
    /\ outcome' = Outcome("setProtectionLevel", "returned")
    /\ UNCHANGED handlers
    /\ UNCHANGED <<checkArgs, checkTypes, checkResult, invoked, malformed>>
    /\ UNCHANGED <<argv, commands, cmdHeap, onCmdFunctions, warnings, flushes, pc, idx,
                   parsed, running, log, atBegin, regLog, nextCb, nextOpt, warnerVars, nativeVars>>

\* a handler argument: a predicate, or a value that is not callable
Predicate(p) == [callable |-> TRUE, pred |-> p]
NotCallable  == [callable |-> FALSE, pred |-> "never"]

\* addCustomHandler without the sandbox branch at its head
addCustomHandlerNoSandboxBranch(name, handler) ==
    /\ pc = "idle"
    /\ LET valid  == name.kind = "string" /\ handler.callable
           key    == IF valid THEN name.s ELSE PropertyKey(JSONstringify(name))
           h      == IF valid THEN handler.pred ELSE "never"
           warned == ~valid /\ protectionLevel # "none"
       IN  IF protectionLevel = "hardened" /\ frozenHandlers
           THEN /\ outcome' = Outcome("addCustomHandler", "threw")
                /\ UNCHANGED handlers
           ELSE IF ~valid /\ protectionLevel \in {"boundary", "hardened"}
           THEN /\ outcome' = Outcome("addCustomHandler", "threw")
                /\ UNCHANGED handlers
           ELSE IF objectFrozen
           THEN /\ outcome' = Outcome("addCustomHandler", "threw")
                /\ UNCHANGED handlers
           ELSE /\ handlers' = [k \in DOMAIN handlers \cup {key} |->
                                  IF k = key THEN h ELSE handlers[k]]
                /\ outcome' = Outcome("addCustomHandler",
                                      IF warned THEN "warned" ELSE "returned")
    /\ malformed' = IF name.kind = "string" /\ handler.callable THEN malformed
                    ELSE malformed \cup {<<protectionLevel, outcome'.res>>}
    /\ UNCHANGED <<protectionLevel, frozenHandlers, objectFrozen, sawHardened>>
    /\ UNCHANGED <<checkArgs, checkTypes, checkResult, invoked>>
    /\ UNCHANGED <<argv, commands, cmdHeap, onCmdFunctions, warnings, flushes, pc, idx,
                   parsed, running, log, atBegin, regLog, nextCb, nextOpt, warnerVars, nativeVars>>

\* JSTypeChecker.addCustomHandler(name, handler): "returned", "warned" (it
\* called console.warn and returned) or "threw".  The class body is strict
\* code: assigning to a property of a frozen object raises a TypeError.
addCustomHandler(name, handler) ==
    /\ pc = "idle"
    /\ LET valid  == name.kind = "string" /\ handler.callable
           key    == IF valid THEN name.s ELSE PropertyKey(JSONstringify(name))
           h      == IF valid THEN handler.pred ELSE "never"
           warned == ~valid /\ protectionLevel # "none"
       IN  IF protectionLevel = "sandbox" /\ frozenHandlers
           THEN /\ outcome' = Outcome("addCustomHandler", "warned")
                /\ UNCHANGED handlers
           ELSE IF protectionLevel = "hardened" /\ frozenHandlers
           THEN /\ outcome' = Outcome("addCustomHandler", "threw")
                /\ UNCHANGED handlers
           ELSE IF ~valid /\ protectionLevel \in {"boundary", "hardened"}
           THEN /\ outcome' = Outcome("addCustomHandler", "threw")
                /\ UNCHANGED handlers
           ELSE IF objectFrozen
           THEN /\ outcome' = Outcome("addCustomHandler", "threw")
                /\ UNCHANGED handlers
           ELSE /\ handlers' = [k \in DOMAIN handlers \cup {key} |->
                                  IF k = key THEN h ELSE handlers[k]]
                /\ outcome' = Outcome("addCustomHandler",
                                      IF warned THEN "warned" ELSE "returned")
    /\ malformed' = IF name.kind = "string" /\ handler.callable THEN malformed
                    ELSE malformed \cup {<<protectionLevel, outcome'.res>>}
    /\ UNCHANGED <<protectionLevel, frozenHandlers, objectFrozen, sawHardened>>
    /\ UNCHANGED <<checkArgs, checkTypes, checkResult, invoked>>
    /\ UNCHANGED <<argv, commands, cmdHeap, onCmdFunctions, warnings, flushes, pc, idx,
                   parsed, running, log, atBegin, regLog, nextCb, nextOpt, warnerVars, nativeVars>>

\* names and handlers passed to addCustomHandler: a seeded name, a new
\* name, a primitive tag, and names that are not strings
HandlerNames  == {Str(<<"Array">>), Str(<<"x">>), Str(<<"string">>), Num1, Undefined}
HandlerInputs == {Predicate("always"), Predicate("isNumber"), NotCallable}

\* levels passed to setProtectionLevel: the four, and one that is none of them
LevelInputs == ProtectionLevels \cup {"paranoid"}

InitMatcher ==
    /\ argv = <<>>
    /\ InitCLI
    /\ InitJSTC
    /\ handlers = SeedHandlers

NextMatcher ==
    \/ \E l \in LevelInputs : setProtectionLevel(l)
    \/ \E n \in HandlerNames, h \in HandlerInputs : addCustomHandler(n, h)

SpecMatcher == InitMatcher /\ [][NextMatcher]_vars

\* the step is a call of addCustomHandler
AddCustomHandlerStep ==
    \E n \in HandlerNames, h \in HandlerInputs : addCustomHandler(n, h)

\* values and branch names check() is compared on
SampleValues ==
    {Str(<<"a">>), Num1, True, Null, Undefined, AFunction, PlainObject,
     EmptyArray, StringArray, NumberArray}
SampleTags ==
    {<<"string">>, <<"number">>, <<"object">>, <<"undefined">>, <<"function">>,
     <<"Array">>, <<"string[]">>, <<"x">>, <<"1">>, <<"string", "|", "x">>}

\* check() gives the same result before and after the step
CheckUnchanged ==
    \A v \in SampleValues, s \in SampleTags :
        check(handlers', <<v>>, <<Bare(Tag(s))>>) = check(handlers, <<v>>, <<Bare(Tag(s))>>)

\* C10: once setProtectionLevel("hardened") was called, every later
\* addCustomHandler call raises, whatever its arguments and whatever level the
\* instance has been set to since, and leaves the result of check() unchanged
\* for every value and type.
C10_AlwaysRaisesAfterHardened ==
    [][(sawHardened /\ AddCustomHandlerStep) =>
          (outcome'.res = "threw" /\ CheckUnchanged)]_vars

\* the current level is sandbox or hardened
Elevated == protectionLevel \in {"sandbox", "hardened"}

\* C11: the freeze is one-way.  Setting the level to sandbox or hardened
\* freezes the handler table, the freeze is never undone, and while it lasts
\* no call (setProtectionLevel to any level, addCustomHandler with any
\* arguments) adds, replaces or removes an entry of the table.
C11_FreezeIsOneWay ==
    /\ [](Elevated => objectFrozen)
    /\ [][objectFrozen => (objectFrozen' /\ handlers' = handlers)]_vars

\* addCustomHandler was called with the level lowered to boundary after a freeze
C11_Witness ==
    /\ objectFrozen
    /\ protectionLevel = "boundary"
    /\ outcome.op = "addCustomHandler"

\* C12: at level sandbox addCustomHandler warns, returns normally and leaves
\* the table as it was, whatever its arguments; at level hardened it raises
\* and leaves the table as it was.
C12_SandboxWarnsHardenedRaises ==
    [][AddCustomHandlerStep =>
          /\ protectionLevel = "sandbox" =>
                (outcome' = Outcome("addCustomHandler", "warned") /\ handlers' = handlers)
          /\ protectionLevel = "hardened" =>
                (outcome' = Outcome("addCustomHandler", "threw") /\ handlers' = handlers)]_vars

\* addCustomHandler warned and returned at level sandbox
C12_Witness ==
    /\ protectionLevel = "sandbox"
    /\ outcome = Outcome("addCustomHandler", "warned")

-----------------------------------------------------------------------------
(* check() on every input: a matcher with some handlers registered is      *)
(* about to evaluate JSTC.for(checkArgs).check(checkTypes)                 *)

\* values in args
MaxArgs == 3
\* entries in types
MaxTypes == 2

\* JSTC.for(checkArgs).check(checkTypes)
forCheck ==
    /\ pc = "idle"
    /\ checkResult' = check(handlers, checkArgs, checkTypes)
    /\ invoked' = Invoked(handlers, checkArgs, checkTypes)
    /\ outcome' = Outcome("check", "returned")
    /\ UNCHANGED <<checkArgs, checkTypes, handlers, protectionLevel, frozenHandlers,
                   objectFrozen, sawHardened, malformed>>
    /\ UNCHANGED <<argv, commands, cmdHeap, onCmdFunctions, warnings, flushes, pc, idx,
                   parsed, running, log, atBegin, regLog, nextCb, nextOpt, warnerVars, nativeVars>>

\* the values checked
CheckValues == {Str(<<"a">>), Num1, StringArray}

\* branch names: a primitive tag, a seeded handler, a name that is registered
\* in some tables, and a name of a method of Object.prototype
BranchNames == {<<"string">>, <<"Array">>, <<"x">>, <<"toString">>}

\* one entry of types: a name, a union of two names, a list of two names, a class
TypeEntries ==
    {Bare(Tag(a)) : a \in BranchNames}
    \cup {Bare(Tag(a \o <<"|">> \o b)) : a, b \in BranchNames}
    \cup {List(<<Tag(a), Tag(b)>>) : a, b \in BranchNames}
    \cup {Bare(ClassRef("Array"))}

\* handler tables: the seeded one, and after addCustomHandler("string", isNumber)
\* and addCustomHandler("x", always)
CheckTables ==
    {SeedHandlers,
     [n \in {<<"Array">>, <<"string[]">>, <<"string">>} |->
        IF n = <<"string">> THEN "isNumber" ELSE n[1]],
     [n \in {<<"Array">>, <<"string[]">>, <<"string">>, <<"x">>} |->
        IF n = <<"string">> THEN "isNumber" ELSE IF n = <<"x">> THEN "always" ELSE n[1]]}

InitCheck ==
    /\ argv = <<>>
    /\ InitCLI
    /\ protectionLevel = "boundary"
    /\ frozenHandlers = FALSE
    /\ objectFrozen = FALSE
    /\ sawHardened = FALSE
    /\ handlers \in CheckTables
    /\ checkArgs \in SeqsUpTo(CheckValues, MaxArgs)
    /\ checkTypes \in SeqsUpTo(TypeEntries, MaxTypes)
    /\ checkResult = "none"
    /\ invoked = <<>>
    /\ malformed = {}
    /\ nativeResult = NativeUnchecked

NextCheck == forCheck

SpecCheck == InitCheck /\ [][NextCheck]_vars

\* the last call was check, so checkResult and invoked are its result
Checked == outcome.op = "check"

\* C13: union distributes.  For every value x and branch names a and b,
\* check([x], ["a|b"]) and check([x], [[a, b]]) are true exactly when
\* check([x], ["a"]) or check([x], ["b"]) is.
C13_UnionDistributes ==
    (Checked /\ Len(checkArgs) = 1) =>
        \A a, b \in BranchNames :
            (\/ checkTypes = <<Bare(Tag(a \o <<"|">> \o b))>>
             \/ checkTypes = <<List(<<Tag(a), Tag(b)>>)>>)
            => checkResult = (\/ check(handlers, checkArgs, <<Bare(Tag(a))>>)
                              \/ check(handlers, checkArgs, <<Bare(Tag(b))>>))

\* a union was true by its second branch alone
C13_Witness ==
    /\ Checked
    /\ checkArgs = <<Num1>>
    /\ checkTypes = <<Bare(Tag(<<"Array", "|", "string">>))>>
    /\ checkResult = TRUE
    /\ ~check(handlers, checkArgs, <<Bare(Tag(<<"Array">>))>>)

\* C14: check is false when there are fewer values than types, and then no
\* type is evaluated; otherwise its result is that of the first Len(types)
\* values alone; with no types it is true.
C14_Positional ==
    Checked =>
        /\ Len(checkArgs) < Len(checkTypes) => (checkResult = FALSE /\ invoked = <<>>)
        /\ Len(checkArgs) >= Len(checkTypes) =>
              checkResult = check(handlers, SubSeq(checkArgs, 1, Len(checkTypes)), checkTypes)
        /\ checkTypes = <<>> => checkResult = TRUE

\* check was true with more values than types
C14_Witness ==
    /\ Checked
    /\ Len(checkArgs) > Len(checkTypes)
    /\ Len(checkTypes) > 0
    /\ checkResult = TRUE

RECURSIVE FlatBranches(_)
\* the branches of one position in declaration order: the names of its
\* list, each split at "|"
FlatBranches(items) ==
    IF items = <<>> THEN <<>>
    ELSE UnionTypes(Head(items)) \o FlatBranches(Tail(items))

\* branch j of position p is satisfied by the value at p
Satisfied(p, j) ==
    BranchMatches(handlers, checkArgs[p], FlatBranches(checkTypes[p].items)[j])

\* C15: check calls handlers position by position from the left and, within
\* a position, branch by branch in declaration order; it calls no handler
\* for a branch after the first satisfied branch of its position, and none
\* for a position after the first position where no branch matched.
C15_ShortCircuit ==
    Checked =>
        /\ \A k \in 1..(Len(invoked) - 1) :
              \/ invoked[k].pos < invoked[k + 1].pos
              \/ /\ invoked[k].pos = invoked[k + 1].pos
                 /\ invoked[k].branch < invoked[k + 1].branch
        /\ \A k \in 1..Len(invoked) :
              LET e == invoked[k]
              IN  /\ e.name = FlatBranches(checkTypes[e.pos].items)[e.branch].s
                  /\ \A j \in 1..(e.branch - 1) : ~Satisfied(e.pos, j)
                  /\ \A p \in 1..(e.pos - 1) :
                        \E j \in 1..Len(FlatBranches(checkTypes[p].items)) : Satisfied(p, j)

\* the first branch was satisfied by its handler and the handler named by
\* the second branch was not called
C15_Witness ==
    /\ Checked
    /\ checkArgs = <<StringArray>>
    /\ checkTypes = <<Bare(Tag(<<"Array", "|", "x">>))>>
    /\ <<"x">> \in DOMAIN handlers
    /\ Len(invoked) = 1
    /\ invoked[1].name = <<"Array">>

\* C16: a branch that names a registered handler is decided by the handler
\* alone, also when the name is a primitive tag; a branch that names no
\* registered handler is decided by comparing typeof the value with the
\* name; a class branch is decided by instanceof.
C16_BranchDecision ==
    (Checked /\ Len(checkArgs) = 1) =>
        /\ \A a \in BranchNames :
              checkTypes = <<Bare(Tag(a))>> =>
                 checkResult = IF a \in DOMAIN handlers
                               THEN ApplyHandler(handlers[a], checkArgs[1])
                               ELSE TypeOf(checkArgs[1]) = a
        /\ checkTypes = <<Bare(ClassRef("Array"))>> =>
              checkResult = (checkArgs[1].kind = "array")

\* the levels from lax to strict, and the results from lenient to severe
LevelRank(l) ==
    CASE l = "none" -> 0 [] l = "boundary" -> 1 [] l = "sandbox" -> 2 [] OTHER -> 3
Severity(res) ==
    CASE res = "returned" -> 0 [] res = "warned" -> 1 [] OTHER -> 2

\* C17: the result of addCustomHandler with a name that is no string or a
\* handler that is no function escalates with the level, none < boundary <
\* sandbox < hardened, from silent coercion over a warning to a raised
\* error: a stricter level is never more lenient than a laxer one.
C17_Escalation ==
    \A p, q \in malformed :
        LevelRank(p[1]) < LevelRank(q[1]) => Severity(p[2]) <= Severity(q[2])

-----------------------------------------------------------------------------
(* new CLI(process, options): the modules are loaded, the program          *)
(* constructs registries and sets the level of the shared matcher          *)

\* the options of the constructor; "absent" for a field that is not given
CLIOptions ==
    [warningLevel : {"absent", "silent", "full"},
     protectionLevel : {"absent", "none", "boundary", "sandbox", "hardened"}]

\* the constructor applying its options before it looks at the handle
newCLIOptionsFirst(process, options) ==
    /\ pc = "idle"
    /\ warnerLevel' = IF options.warningLevel # "absent"
                      THEN options.warningLevel ELSE warnerLevel
    /\ IF options.protectionLevel # "absent"
       THEN /\ protectionLevel' = options.protectionLevel
            /\ IF options.protectionLevel \in {"sandbox", "hardened"}
               THEN objectFrozen' = TRUE /\ frozenHandlers' = TRUE
               ELSE UNCHANGED <<objectFrozen, frozenHandlers>>
            /\ sawHardened' = (sawHardened \/ options.protectionLevel = "hardened")
            /\ warnerProtection' = options.protectionLevel
       ELSE UNCHANGED <<protectionLevel, objectFrozen, frozenHandlers,
                        sawHardened, warnerProtection>>
    /\ IF ~check(handlers, <<process>>, <<Bare(Tag(<<"NodeJS", " ", "Process">>))>>)
       THEN /\ outcome' = Outcome("new", "threw")
            /\ UNCHANGED <<commands, onCmdFunctions>>
       ELSE /\ outcome' = Outcome("new", "returned")
            /\ commands' = <<>>
            /\ onCmdFunctions' = <<>>
    /\ UNCHANGED <<argv, cmdHeap, warnings, flushes, pc, idx, parsed, running, log,
                   atBegin, regLog, nextCb, nextOpt, handlers,
                   checkArgs, checkTypes, checkResult, invoked, malformed, nativeVars>>

\* new CLI(process, options); the registry of the model is the one
\* constructed last
newCLI(process, options) ==
    /\ pc = "idle"
    /\ IF ~check(handlers, <<process>>, <<Bare(Tag(<<"NodeJS", " ", "Process">>))>>)
       THEN /\ outcome' = Outcome("new", "threw")
            /\ UNCHANGED <<commands, onCmdFunctions, warnerLevel, warnerProtection,
                           protectionLevel, objectFrozen, frozenHandlers, sawHardened>>
       ELSE /\ outcome' = Outcome("new", "returned")
            /\ commands' = <<>>
            /\ onCmdFunctions' = <<>>
            /\ warnerLevel' = IF options.warningLevel # "absent"
                              THEN options.warningLevel ELSE warnerLevel
            /\ IF options.protectionLevel # "absent"
               THEN /\ protectionLevel' = options.protectionLevel
                    /\ IF options.protectionLevel \in {"sandbox", "hardened"}
                       THEN objectFrozen' = TRUE /\ frozenHandlers' = TRUE
                       ELSE UNCHANGED <<objectFrozen, frozenHandlers>>
                    /\ sawHardened' = (sawHardened \/ options.protectionLevel = "hardened")
                    /\ warnerProtection' = options.protectionLevel
               ELSE UNCHANGED <<protectionLevel, objectFrozen, frozenHandlers,
                                sawHardened, warnerProtection>>
    /\ UNCHANGED <<argv, cmdHeap, warnings, flushes, pc, idx, parsed, running, log,
                   atBegin, regLog, nextCb, nextOpt, handlers,
                   checkArgs, checkTypes, checkResult, invoked, malformed, nativeVars>>

\* objects that lack a field of a process
PidOnly   == [kind |-> "object", s |-> <<"pid">>]
NoExit    == [kind |-> "object", s |-> <<"pid", "cwd">>]

\* the handles passed to the constructor
Handles == {ProcessObj, PlainObject, PidOnly, NoExit, Null, Undefined, Num1,
            Str(<<"a">>), AFunction, EmptyArray}

InitConstruct ==
    /\ argv = <<Prog, Script>>
    /\ commands = <<>>
    /\ cmdHeap = <<>>
    /\ onCmdFunctions = <<>>
    /\ warnings = 0
    /\ flushes = 0
    /\ warnerLevel = "summary"
    /\ warnerProtection = "boundary"
    /\ nativeParsed = NativeNone
    /\ pc = "idle"
    /\ idx = 0
    /\ parsed = Failed
    /\ running = <<>>
    /\ log = <<>>
    /\ outcome = Outcome("import", "returned")
    /\ atBegin = <<>>
    /\ regLog = <<>>
    /\ nextCb = 0
    /\ nextOpt = 0
    /\ InitJSTC
    /\ handlers = LoadedHandlers

NextConstruct ==
    \/ \E h \in Handles, o \in CLIOptions : newCLI(h, o)
    \/ \E l \in LevelInputs : setProtectionLevel(l)

SpecConstruct == InitConstruct /\ [][NextConstruct]_vars

\* an object with a numeric pid, a callable cwd and a callable exit
IsProcessHandle(v) ==
    /\ v.kind = "object"
    /\ \A f \in {"pid", "cwd", "exit"} : \E k \in 1..Len(v.s) : v.s[k] = f

\* C18: a construction with a handle that is not an object with a numeric
\* pid, a callable cwd and a callable exit raises, whatever options are
\* passed, and leaves the level and the handlers of the shared matcher and
\* the levels of the warner as they were.
C18_FailedConstruction ==
    [][(\E h \in Handles, o \in CLIOptions : ~IsProcessHandle(h) /\ newCLI(h, o)) =>
          /\ outcome' = Outcome("new", "threw")
          /\ UNCHANGED <<protectionLevel, frozenHandlers, objectFrozen, handlers,
                         warnerLevel, warnerProtection, commands, onCmdFunctions>>]_vars

\* a construction raised and the matcher and the warner have the levels
\* they are loaded with
C18_Witness ==
    /\ outcome = Outcome("new", "threw")
    /\ protectionLevel = "boundary"
    /\ ~objectFrozen
    /\ warnerLevel = "summary"

-----------------------------------------------------------------------------
(* on(): the program registers Commands and subscribes with every kind of  *)
(* event and callback argument                                             *)

\* the events passed to on(): strings and values that are no strings
EventInputs ==
    {Str(<<"command">>), Str(<<"COMMAND">>), Str(<<"Command">>), Str(<<"run">>),
     Num1, Undefined}

\* the callbacks passed to on(): a function and a value that is none
FuncInputs == {AFunction, PlainObject}

InitOn ==
    /\ argv = <<Prog, Script>>
    /\ InitCLI
    /\ InitJSTC
    /\ handlers = LoadedHandlers

NextOn ==
    \/ \E n \in Names : command(Str(n))
    \/ \E e \in EventInputs, f \in FuncInputs : on(e, f, "ret")
    \/ \E id \in 1..MaxCommands, e \in EventInputs, f \in FuncInputs :
          commandOn(id, e, f, "ret")

SpecOn == InitOn /\ [][NextOn]_vars

\* the event is the string "command" in some capitalisation
IsCommandEvent(e) ==
    e.kind = "string" /\ e.s \in {<<"command">>, <<"COMMAND">>, <<"Command">>}

\* the warner was handed one warning: it holds one more, unless it is full
OneWarning ==
    warnings' = IF warnings < MaxWarnings THEN warnings + 1 ELSE warnings

\* what C19 says of one call on(e, f) whose subscriber list goes from old to new
OnEffect(e, f, old, new) ==
    IF e.kind = "string" /\ f.kind = "function"
    THEN IF IsCommandEvent(e)
         THEN /\ Len(new) = Len(old) + 1
              /\ SubSeq(new, 1, Len(old)) = old
              /\ outcome'.res = "returned"
              /\ warnings' = warnings
         ELSE /\ new = old
              /\ outcome'.res = "returned"
              /\ OneWarning
    ELSE /\ outcome'.res = "threw"
         /\ new = old

OnStep(e, f) ==
    \/ on(e, f, "ret")
    \/ \E id \in 1..Len(cmdHeap) : commandOn(id, e, f, "ret")

\* C20 as claimed: an event name that is not "command" is always raised to
\* the caller of on(), never downgraded to a warning or ignored.
C20_InvalidEventRaises ==
    [][\A e \in EventInputs, f \in FuncInputs :
          (OnStep(e, f) /\ ~IsCommandEvent(e)) => outcome'.res = "threw"]_vars

\* C20 as amended: an event name that is not "command" is raised to the
\* caller of on() when it is not a string; when it is a string (and the
\* callback a function) it is downgraded to a warning, never ignored: on()
\* returns, hands a warning to the warner and registers nothing.
C20_InvalidEventWarnsOrRaises ==
    [][\A e \in EventInputs, f \in FuncInputs :
          (OnStep(e, f) /\ ~IsCommandEvent(e)) =>
              /\ e.kind # "string" => outcome'.res = "threw"
              /\ (e.kind = "string" /\ f.kind = "function") =>
                    (outcome'.res = "returned" /\ OneWarning)
              /\ UNCHANGED <<onCmdFunctions, cmdHeap>>]_vars

\* CLI.on returned after an event that is not "command": nothing is
\* registered and the warner holds a warning
C20_Witness ==
    /\ outcome = Outcome("on", "returned")
    /\ warnings > 0
    /\ onCmdFunctions = <<>>
    /\ \A id \in 1..Len(cmdHeap) : cmdHeap[id].onCmdFunctions = <<>>

-----------------------------------------------------------------------------
(* command() and option() with names that are no strings *)

\* C21: command(x) and option(x) with x no string never raise: they hand a
\* warning to the warner and register a Command or Option under a string
\* encoding of x.
C21_NonStringNameFallback ==
    [][\A n \in NameInputs :
          n.kind # "string" =>
             /\ command(n) =>
                   /\ outcome'.res = "returned"
                   /\ warnings' > warnings
                   /\ Len(cmdHeap') = Len(cmdHeap) + 1
             /\ \A id \in 1..Len(cmdHeap) :
                   option(id, n) =>
                      /\ outcome'.res = "returned"
                      /\ warnings' > warnings
                      /\ nextOpt' = nextOpt + 1]_vars

-----------------------------------------------------------------------------
(* The native CLI (src/src/cli-john/node/cli-john.cc) beside the reference *)

RECURSIVE NativeCommandArgsLoop(_, _, _)
\* the first loop of ParseArgs (i counts from 1): it returns the arguments
\* and the index it stopped at
NativeCommandArgsLoop(parts, i, commandArgs) ==
    IF i > Len(parts) THEN [commandArgs |-> commandArgs, i |-> i]
    ELSE IF StartsWithDashDash(parts[i]) THEN [commandArgs |-> commandArgs, i |-> i]
    ELSE NativeCommandArgsLoop(parts, i + 1, Append(commandArgs, parts[i]))

RECURSIVE NativeValuesLoop(_, _, _)
\* the inner loop of ParseArgs
NativeValuesLoop(parts, j, values) ==
    IF j > Len(parts) THEN values
    ELSE IF StartsWithDashDash(parts[j]) THEN values
    ELSE NativeValuesLoop(parts, j + 1, Append(values, parts[j]))

RECURSIVE NativeOptionsLoop(_, _, _)
\* the second loop of ParseArgs
NativeOptionsLoop(parts, i, options) ==
    IF i > Len(parts) THEN options
    ELSE IF ~StartsWithDashDash(parts[i]) THEN NativeOptionsLoop(parts, i + 1, options)
    ELSE NativeOptionsLoop(parts, i + 1,
                           Append(options, [option |-> parts[i],
                                            arguments |-> NativeValuesLoop(parts, i + 1, <<>>)]))

\* NativeCLI::ParseArgs(parts) as ToJsParseResult returns it: the registered
\* commands are not consulted
ParseArgs(parts) ==
    IF parts = <<>>
    THEN [called |-> TRUE, command |-> <<>>, commandArgs |-> <<>>, options |-> <<>>]
    ELSE LET first == NativeCommandArgsLoop(parts, 2, <<>>)
         IN  [called |-> TRUE,
              command |-> parts[1],
              commandArgs |-> first.commandArgs,
              options |-> NativeOptionsLoop(parts, first.i, <<>>)]

\* parse(tokens) of the native CLI
nativeParse(tokens) ==
    /\ pc = "idle"
    /\ nativeParsed' = ParseArgs(tokens)
    /\ UNCHANGED <<argv, commands, cmdHeap, onCmdFunctions, warnings, flushes, pc, idx,
                   parsed, running, log, outcome, atBegin, regLog, nextCb, nextOpt,
                   warnerVars, jstcVars, nativeResult>>

\* the program registers Commands and tokenizes the tokens after the script
\* path with both implementations
NextNativeCLI ==
    \/ \E n \in Names : command(Str(n))
    \/ runBegin
    \/ nextLoop
    \/ runEnd
    \/ nativeParse(DropTwo(argv))

SpecNativeCLI == InitTokenizer /\ [][NextNativeCLI]_vars

\* C22: the native tokenizer and the reference tokenizer agree on every
\* registry and every token sequence: the same matched or failed outcome
\* (a failure reports an empty command name), the same command name, the
\* same commandArgs and the same option list.
C22_NativeTokenizerEqualsReference ==
    (Tokenized /\ nativeParsed.called) =>
        /\ parsed.failed <=> (nativeParsed.command = <<>>)
        /\ nativeParsed.command = parsed.commandName
        /\ nativeParsed.commandArgs = parsed.commandArgs
        /\ nativeParsed.options = parsed.options

-----------------------------------------------------------------------------
(* The native matcher (src/unnamed/part_006, lines 231-395) beside the     *)
(* reference                                                               *)

RECURSIVE NativeSplit(_, _)
\* Split(input, '|'), cur the piece being read: empty pieces are dropped
NativeSplit(s, cur) ==
    IF s = <<>> THEN (IF cur = <<>> THEN <<>> ELSE <<cur>>)
    ELSE IF Head(s) = "|"
         THEN (IF cur = <<>> THEN <<>> ELSE <<cur>>) \o NativeSplit(Tail(s), <<>>)
    ELSE NativeSplit(Tail(s), Append(cur, Head(s)))

\* Napi::Value::IsObject: an object or a function, and not null
IsObject(v) == v.kind \in {"object", "array", "function"}

\* IsTypeMatch(value, expected)
IsTypeMatch(value, expected) ==
    CASE expected = <<"string">>    -> value.kind = "string"
      [] expected = <<"number">>    -> value.kind = "number"
      [] expected = <<"boolean">>   -> value.kind = "boolean"
      [] expected = <<"object">>    -> IsObject(value)
      [] expected = <<"function">>  -> value.kind = "function"
      [] expected = <<"undefined">> -> value.kind = "undefined"
      [] expected = <<"Array">>     -> value.kind = "array"
      [] expected = <<"string[]">>  ->
            value.kind = "array" /\ \A k \in 1..Len(value.s) : value.s[k] = "string"
      [] OTHER                      -> FALSE

RECURSIVE NativeUnionLoop(_, _, _)
\* for (const std::string& t : unions)
NativeUnionLoop(value, unions, k) ==
    IF k > Len(unions) THEN FALSE
    ELSE IF IsTypeMatch(value, unions[k]) THEN TRUE
    ELSE NativeUnionLoop(value, unions, k + 1)

\* one candidate: a string is split and tried, a function is tried with
\* InstanceOf when the value is an object
NativeCandidate(value, candidate) ==
    IF ~candidate.class THEN NativeUnionLoop(value, NativeSplit(candidate.s, <<>>), 1)
    ELSE IsObject(value) /\ InstanceOf(value, candidate.s)

RECURSIVE NativeArrayLoop(_, _, _)
\* for (uint32_t j = 0; j < arr.Length(); j++): if (matched) break
NativeArrayLoop(value, arr, j) ==
    IF j > Len(arr) THEN FALSE
    ELSE IF NativeCandidate(value, arr[j]) THEN TRUE
    ELSE NativeArrayLoop(value, arr, j + 1)

RECURSIVE NativePositionLoop(_, _, _)
\* for (uint32_t i = 0; i < types.Length(); i++): if (!matched) return false
NativePositionLoop(args, types, i) ==
    IF i > Len(types) THEN TRUE
    ELSE LET matched == IF types[i].list
                        THEN NativeArrayLoop(args[i], types[i].items, 1)
                        ELSE NativeCandidate(args[i], types[i].items[1])
         IN  IF ~matched THEN FALSE ELSE NativePositionLoop(args, types, i + 1)

\* NativeJSTC::Check(args, types), both arrays
NativeCheck(args, types) ==
    IF Len(args) < Len(types) THEN FALSE ELSE NativePositionLoop(args, types, 1)

\* check(checkArgs, checkTypes) of the native matcher
nativeCheck ==
    /\ pc = "idle"
    /\ nativeResult' = [called |-> TRUE, value |-> NativeCheck(checkArgs, checkTypes)]
    /\ UNCHANGED <<argv, commands, cmdHeap, onCmdFunctions, warnings, flushes, pc, idx,
                   parsed, running, log, outcome, atBegin, regLog, nextCb, nextOpt,
                   warnerVars, nativeParsed>>
    /\ UNCHANGED <<protectionLevel, frozenHandlers, objectFrozen, handlers, sawHardened,
                   checkArgs, checkTypes, checkResult, invoked, malformed>>

\* the values and the names both matchers are given: primitive tags and a
\* seeded handler name
NativeValues == {Str(<<"a">>), Null, AFunction, StringArray}
NativeNames  == {<<"string">>, <<"object">>, <<"function">>, <<"string[]">>}

NativeTypeEntries ==
    {Bare(Tag(a)) : a \in NativeNames}
    \cup {Bare(Tag(a \o <<"|">> \o b)) : a, b \in NativeNames}
    \cup {List(<<Tag(a), Tag(b)>>) : a, b \in NativeNames}
    \cup {Bare(ClassRef("Array"))}

InitNativeCheck ==
    /\ argv = <<>>
    /\ InitCLI
    /\ protectionLevel = "boundary"
    /\ frozenHandlers = FALSE
    /\ objectFrozen = FALSE
    /\ sawHardened = FALSE
    /\ handlers = SeedHandlers
    /\ checkArgs \in SeqsUpTo(NativeValues, MaxArgs)
    /\ checkTypes \in SeqsUpTo(NativeTypeEntries, MaxTypes)
    /\ checkResult = "none"
    /\ invoked = <<>>
    /\ malformed = {}
    /\ nativeResult = NativeUnchecked

NextNativeCheck ==
    \/ forCheck
    \/ nativeCheck

SpecNativeCheck == InitNativeCheck /\ [][NextNativeCheck]_vars

\* C23: the native check and the reference check return the same boolean
\* for every value list and every type list built from primitive tags, the
\* seeded handler names, class references, unions and lists of these.
C23_NativeCheckEqualsReference ==
    (Checked /\ nativeResult.called) => nativeResult.value = checkResult

-----------------------------------------------------------------------------
(* run() and the warner's flush *)

\* C24: a run() whose parse succeeded calls flush exactly once, at the step
\* that ends it, and flush is called at no other step: never before or
\* between the subscriber calls, only when both loops are over.
C24_FlushOnceAtEnd ==
    [][/\ (pc \in {"registry", "command"} /\ pc' = "idle") => flushes' = flushes + 1
       /\ flushes' # flushes =>
             /\ flushes' = flushes + 1
             /\ pc = "command" /\ pc' = "idle"
             /\ running = <<>>
             /\ idx >= Len(parsed.commandMetadata.onCmdFunctions)
             /\ \A k \in 1..Len(atBegin) :
                   \E j \in 1..Len(log) : log[j] = [level |-> "registry", cb |-> atBegin[k]]]_vars

-----------------------------------------------------------------------------
(* run() and the Commands it does not match *)

\* the Command object id holds the subscriber cb
Subscribes(id, cb) ==
    \E k \in 1..Len(cmdHeap[id].onCmdFunctions) : cmdHeap[id].onCmdFunctions[k] = cb

\* C25: every subscriber run() calls in its second loop is attached to a
\* Command whose name is the first token, never to a Command of another
\* name; a run() that returns has called exactly the subscribers of the
\* matched Command (after the Registry-level ones).
C25_OnlyMatchedCommand ==
    /\ \A j \in 1..Len(log) :
          log[j].level = "command" =>
             /\ Len(argv) >= 3
             /\ \E id \in 1..Len(cmdHeap) : Subscribes(id, log[j].cb)
             /\ \A id \in 1..Len(cmdHeap) :
                   Subscribes(id, log[j].cb) => cmdHeap[id].name = argv[3]
    /\ outcome = Outcome("run", "returned") =>
          /\ Called("command") = Snapshot
          /\ parsed.commandName = argv[3]
          /\ IsPrefix(Snapshot, cmdHeap[parsed.commandId].onCmdFunctions)

\* run() returned with two Commands registered, each with a subscriber: one
\* was called
C25_Witness ==
    /\ outcome = Outcome("run", "returned")
    /\ Len(commands) = 2
    /\ \A k \in 1..2 : cmdHeap[commands[k]].onCmdFunctions # <<>>
    /\ cmdHeap[commands[1]].name # argv[3]
    /\ Len(Called("command")) = 1

-----------------------------------------------------------------------------
(* Commands registered twice, Options and their subscribers: the program   *)
(* registers Commands named "a", Options named "f" and subscribers at the  *)
(* three levels, keeps every handle, and calls run()                       *)

\* argument vectors naming the Command, without and with its option
SubscriberVectors ==
    {<<Prog, Script, <<"a">> >>,
     <<Prog, Script, <<"a">>, <<"-", "-", "f">>, <<"a">> >>}

InitSubscribers ==
    /\ argv \in SubscriberVectors
    /\ InitCLI
    /\ InitJSTC
    /\ handlers = LoadedHandlers

NextSubscribers ==
    \/ command(Str(<<"a">>))
    \/ \E id \in 1..MaxCommands : option(id, Str(<<"f">>))
    \/ \E k \in {"ret", "onCmd"} : on(Str(<<"command">>), AFunction, k)
    \/ \E id \in 1..MaxCommands, k \in {"ret", "onCmd"} :
          commandOn(id, Str(<<"command">>), AFunction, k)
    \/ \E id \in 1..MaxCommands, o \in 1..MaxOptions :
          optionOn(id, o, Str(<<"command">>), AFunction, "ret")
    \/ runBegin
    \/ invoke
    \/ \E k \in {"ret", "onCmd"} : callbackReturns(k)
    \/ nextLoop
    \/ runEnd

SpecSubscribers == InitSubscribers /\ [][NextSubscribers]_vars

\* the Command object that the latest command(name) returned, 0 when none
Latest(name) ==
    IF \E k \in 1..Len(regLog) : regLog[k][1] = name
    THEN regLog[CHOOSE k \in 1..Len(regLog) :
                   /\ regLog[k][1] = name
                   /\ \A j \in (k + 1)..Len(regLog) : regLog[j][1] # name][2]
    ELSE 0

\* the subscriber run() has just called, at a step that calls one
JustCalled == log'[Len(log')].cb

\* C26: when command(n) was called twice, run() uses the Command the second
\* call returned: the metadata it tokenizes with (options and subscribers)
\* are those of that Command, and no subscriber attached to the first
\* Command, before or after the replacement, is called.
C26_ReplacedCommandUnused ==
    [][/\ (pc = "idle" /\ pc' = "registry") =>
             /\ parsed'.commandId = Latest(argv[3])
             /\ parsed'.commandMetadata = metadata(cmdHeap[Latest(argv[3])])
       /\ (pc = "command" /\ log' # log /\ log' # <<>>) =>
             /\ Subscribes(Latest(argv[3]), JustCalled)
             /\ \A id \in 1..Len(cmdHeap) :
                   id # Latest(argv[3]) => ~Subscribes(id, JustCalled)]_vars

\* run() returned and called a subscriber; the Command was registered twice
\* and the first Command object has a subscriber and an option
C26_Witness ==
    /\ outcome = Outcome("run", "returned")
    /\ Len(cmdHeap) = 2
    /\ Len(commands) = 1
    /\ cmdHeap[1].onCmdFunctions # <<>>
    /\ cmdHeap[1].options # <<>>
    /\ Len(Called("command")) = 1

\* a subscriber of some Option of some Command object
OptionLevel(cb) ==
    \E id \in 1..Len(cmdHeap) : \E k \in 1..Len(cmdHeap[id].options) :
       \E j \in 1..Len(cmdHeap[id].options[k].onCmdFunctions) :
          cmdHeap[id].options[k].onCmdFunctions[j] = cb

\* C28: a subscriber registered with Option.on("command", f) is stored in
\* the Option and is never called by run(), whether or not the option is a
\* "--" token of the argument vector.
C28_OptionSubscribersNeverCalled ==
    /\ [](\A j \in 1..Len(log) : ~OptionLevel(log[j].cb))
    /\ [][\A id \in 1..Len(cmdHeap), k \in 1..MaxOptions :
             optionOn(id, k, Str(<<"command">>), AFunction, "ret") =>
                cmdHeap'[id].options[k].onCmdFunctions
                   = Append(cmdHeap[id].options[k].onCmdFunctions,
                            [id |-> nextCb + 1, kind |-> "ret"])]_vars

\* run() returned; the matched Command's option "f" has a subscriber and is
\* a token of the argument vector
C28_Witness ==
    /\ outcome = Outcome("run", "returned")
    /\ Len(parsed.options) = 1
    /\ \E k \in 1..Len(parsed.commandMetadata.options) :
          /\ parsed.commandMetadata.options[k].name = <<"f">>
          /\ parsed.commandMetadata.options[k].onCmdFunctions # <<>>
    /\ log # <<>>

-----------------------------------------------------------------------------
(* run() and the subscribers registered on the matched Command during a    *)
(* pass                                                                    *)

\* the matched Command's own list, as it stands now
Live == cmdHeap[parsed.commandId].onCmdFunctions

\* during a pass the list run() reads is the copy taken when it tokenized:
\* what was attached to the matched Command since is not in it and has not
\* been called
NotInThisPass ==
    pc \in {"registry", "command"} =>
        /\ IsPrefix(Snapshot, Live)
        /\ IsPrefix(Called("command"), Snapshot)
        /\ \A k \in (Len(Snapshot) + 1)..Len(Live) : TimesCalled(Live[k]) = 0

\* a run() that resolves a Command copies that Command's whole list, the
\* subscribers attached during an earlier pass included
InNextSnapshot ==
    (pc = "idle" /\ pc' = "registry") =>
        parsed'.commandMetadata.onCmdFunctions = cmdHeap[parsed'.commandId].onCmdFunctions

\* when a run() that resolved a Command is over, it has called every
\* subscriber of its copy
CalledInNextRun ==
    (outcome.op = "run" /\ outcome.res \in {"returned", "threw"}) =>
        \A k \in 1..Len(Snapshot) : TimesCalled(Snapshot[k]) = 1

\* C27: the list of the matched Command that run() reads is the copy taken
\* by metadata() when it tokenized: a subscriber that a callback attaches to
\* the matched Command during a pass is not called in that pass, it is in
\* the copy of the next run(), and the next run() calls it.
C27_SnapshotThenNextRun ==
    /\ []NotInThisPass
    /\ [][InNextSnapshot]_vars
    /\ []CalledInNextRun

-----------------------------------------------------------------------------
(* run() and termination *)

\* the calls run() has still to make, as its two loop tests stand
Remaining ==
    CASE pc = "registry" -> (Len(onCmdFunctions) - idx) + Len(Snapshot)
      [] pc = "command"  -> Len(Snapshot) - idx
      [] OTHER           -> 0

\* C29: run() terminates when every subscriber returns, whatever the
\* subscribers register meanwhile: each subscriber that returns leaves run()
\* with fewer calls to make than before it was called.
C29_RunTerminates ==
    [][(running # <<>> /\ running' = <<>> /\ pc' # "idle") =>
          /\ Remaining' < Remaining
          /\ Remaining' >= 0]_vars

-----------------------------------------------------------------------------
(* The matcher: the protection level and the frozen flag *)

\* the level is one of the four, and a level of sandbox or hardened has the
\* flag set
LevelInvariant ==
    /\ protectionLevel \in ProtectionLevels
    /\ frozenHandlers \in BOOLEAN
    /\ protectionLevel \in {"sandbox", "hardened"} => frozenHandlers

\* the arguments of addCustomHandler are malformed
Malformed(n, h) == ~(n.kind = "string" /\ h.callable)

\* C30: the protection level is always one of none, boundary, sandbox,
\* hardened, boundary at first, and setProtectionLevel with another value
\* changes nothing; the frozen flag is false at first and becomes true at,
\* and only at, a setProtectionLevel of sandbox or hardened, and stays
\* true; so a level of sandbox or hardened has the flag set, and a call of
\* addCustomHandler with malformed arguments never warns and then registers:
\* it warns only on the frozen table of level sandbox, which it leaves alone.
C30_LevelAndFrozenFlag ==
    /\ protectionLevel = "boundary" /\ ~frozenHandlers
    /\ []LevelInvariant
    /\ [][\A l \in LevelInputs \ ProtectionLevels :
             setProtectionLevel(l) =>
                UNCHANGED <<protectionLevel, frozenHandlers, objectFrozen, handlers>>]_vars
    /\ [][frozenHandlers' = (\/ frozenHandlers
                             \/ setProtectionLevel("sandbox")
                             \/ setProtectionLevel("hardened"))]_vars
    /\ [][\A n \in HandlerNames, h \in HandlerInputs :
             (addCustomHandler(n, h) /\ Malformed(n, h) /\ outcome'.res = "warned") =>
                /\ protectionLevel = "sandbox" /\ frozenHandlers
                /\ handlers' = handlers]_vars

\* malformed arguments were passed at level sandbox and at level none after
\* the table was frozen: the first call warned, the level is none again and
\* the flag is still set
C30_Witness ==
    /\ protectionLevel = "none"
    /\ frozenHandlers
    /\ ~sawHardened
    /\ <<"sandbox", "warned">> \in malformed
    /\ \E r \in {"returned", "threw", "warned"} : <<"none", r>> \in malformed

=============================================================================
